---- MODULE Spec2Model ----
(***************************************************************************)
(* A model of the Jira CSV importer (src/index.js): the retrying request   *)
(* executor requestWithRetry, the field mapper buildFields with its        *)
(* helpers, getFields, and the two-pass orchestrator main.                 *)
(*                                                                         *)
(* Text the program inspects (CSV cells, header values, field names, the   *)
(* TEAM_MANAGED setting) is a sequence of one-character strings, so that   *)
(* trim, toLowerCase, split and Number are computed character by           *)
(* character.  Identifiers the program only passes around (custom field    *)
(* ids, response bodies) are plain strings.  A CSV column that is missing  *)
(* from a row is the empty text: every read of a cell in the source        *)
(* (x?.trim(), x || "", x || y) treats undefined and "" alike.  A cell may *)
(* carry surrounding whitespace: the trim option of parseCsv strips the    *)
(* whitespace around the delimiters, not the whitespace inside a quoted    *)
(* cell, which is what the trim() calls of buildFields and main are for.   *)
(***************************************************************************)
EXTENDS Integers, Sequences, FiniteSets, TLC

VARIABLES
    rows,       \* main: the parsed CSV rows, in file order
    env,        \* process.env.TEAM_MANAGED
    pc,         \* main: where the async function stands
    pass,       \* main: 1 = "Pass 1: create Epics", 2 = "Pass 2: create the rest"
    idx,        \* main: position of the running for-loop in rows
    schema,     \* main: { epicLinkId, storyPointsId, epicNameId } from getFields
    epicMap,    \* main: the Map local id -> { id, key }, in insertion order
    fields,     \* main: the payload handed to createIssue
    xpc,        \* requestWithRetry: where the call stands
    desc,       \* requestWithRetry: its desc argument
    attempt,    \* requestWithRetry: attempt
    wait,       \* requestWithRetry: wait
    res,        \* requestWithRetry: the response of the latest fn() call
    sleepMs,    \* requestWithRetry: the delay given to setTimeout
    err,        \* the Error thrown and on its way to main's catch
    remote,     \* the destination: the issues created so far, in creation order
    posted,     \* the destination: rows whose create request was sent, in order of first send
    report,     \* the file system: the contents written to import-report.json
    exitCode    \* the process exit code

vars == <<rows, env, pc, pass, idx, schema, epicMap, fields, xpc, desc, attempt,
          wait, res, sleepMs, err, remote, posted, report, exitCode>>

execVars == <<xpc, desc, attempt, wait, res, sleepMs>>

------------------------------------------------------------------------------
(* Bounds of the model. *)

MaxRows == 3

------------------------------------------------------------------------------
(* Text. *)

\* The letters toLowerCase changes
LowerOf ==
    ("A" :> "a") @@ ("B" :> "b") @@ ("C" :> "c") @@ ("D" :> "d") @@ ("E" :> "e")
    @@ ("F" :> "f") @@ ("G" :> "g") @@ ("H" :> "h") @@ ("I" :> "i") @@ ("J" :> "j")
    @@ ("K" :> "k") @@ ("L" :> "l") @@ ("M" :> "m") @@ ("N" :> "n") @@ ("O" :> "o")
    @@ ("P" :> "p") @@ ("Q" :> "q") @@ ("R" :> "r") @@ ("S" :> "s") @@ ("T" :> "t")
    @@ ("U" :> "u") @@ ("V" :> "v") @@ ("W" :> "w") @@ ("X" :> "x") @@ ("Y" :> "y")
    @@ ("Z" :> "z")

Digits == <<"0","1","2","3","4","5","6","7","8","9">>

IsWhitespace(c) == c \in {" ", "\t", "\n", "\r"}

LowerChar(c) == IF c \in DOMAIN LowerOf THEN LowerOf[c] ELSE c

\* String.prototype.toLowerCase
ToLowerCase(s) == [i \in DOMAIN s |-> LowerChar(s[i])]

RECURSIVE TrimStart(_)
TrimStart(s) ==
    IF s # << >> /\ IsWhitespace(Head(s)) THEN TrimStart(Tail(s)) ELSE s

RECURSIVE TrimEnd(_)
TrimEnd(s) ==
    IF s # << >> /\ IsWhitespace(s[Len(s)])
    THEN TrimEnd(SubSeq(s, 1, Len(s) - 1))
    ELSE s

\* String.prototype.trim
Trim(s) == TrimEnd(TrimStart(s))

IsDigit(c) == \E i \in DOMAIN Digits : Digits[i] = c

DigitValue(c) == (CHOOSE i \in DOMAIN Digits : Digits[i] = c) - 1

RECURSIVE DecimalValue(_)
DecimalValue(s) ==
    IF s = << >> THEN 0
    ELSE 10 * DecimalValue(SubSeq(s, 1, Len(s) - 1)) + DigitValue(s[Len(s)])

NaN == [nan |-> TRUE, val |-> 0]

\* Number(text): surrounding whitespace is ignored, the empty text is 0, a
\* run of decimal digits is its value, and the other texts of this model
\* (none of them a signed, fractional, hexadecimal or exponent literal) are NaN.
ToNumber(s) ==
    LET t == Trim(s) IN
    IF \A i \in DOMAIN t : IsDigit(t[i])
    THEN [nan |-> FALSE, val |-> DecimalValue(t)]
    ELSE NaN

StartsWith(s, p) == Len(s) >= Len(p) /\ SubSeq(s, 1, Len(p)) = p

\* The texts the program compares against.
sEpicLower    == <<"e","p","i","c">>
sSubTaskLower == <<"s","u","b","-","t","a","s","k">>
sTask         == <<"T","a","s","k">>
sTrue         == <<"t","r","u","e">>
sFalse        == <<"f","a","l","s","e">>
sEpicLinkName    == <<"e","p","i","c"," ","l","i","n","k">>
sStoryPointsName == <<"s","t","o","r","y"," ","p","o","i","n","t","s">>
sEpicNameName    == <<"e","p","i","c"," ","n","a","m","e">>
sHttp         == <<"h","t","t","p",":","/","/">>
sHttps        == <<"h","t","t","p","s",":","/","/">>

\* PROJECT_KEY of the environment
PROJECT_KEY == <<"P","R","O","J">>

null == "null"

------------------------------------------------------------------------------
(* The destination API, as far as the program sees it: a response has a    *)
(* status, headers and data.  A create request answered with a status      *)
(* below 400 has created an issue, and data is the new issue's { id, key };*)
(* a field-catalog request answered so carries the catalog; any other      *)
(* response carries an error body.                                         *)

JsonHeaders == "content-type" :> "application/json"

WithRetryAfter(v) == JsonHeaders @@ ("retry-after" :> v)

\* Retry-After values: absent, "2", "abc" and the empty value
HeaderChoices ==
    { JsonHeaders, WithRetryAfter(<<"2">>), WithRetryAfter(<<"a","b","c">>),
      WithRetryAfter(<< >>) }

FieldEpicLink    == [id |-> "customfield_10014", name |-> <<"E","p","i","c"," ","L","i","n","k">>]
FieldStoryPoints == [id |-> "customfield_10016", name |-> <<"S","t","o","r","y"," ","p","o","i","n","t","s">>]
FieldEpicName    == [id |-> "customfield_10011", name |-> <<"E","P","I","C"," ","N","A","M","E">>]
FieldSummary     == [id |-> "summary", name |-> <<"S","u","m","m","a","r","y">>]

\* Field catalogs the destination may hold
Catalogs ==
    { <<FieldSummary, FieldEpicLink, FieldStoryPoints, FieldEpicName>>,
      <<FieldSummary>> }

Template(st, h, b, c) == [status |-> st, headers |-> h, body |-> b, catalog |-> c]

\* Responses over every class of status, header and body: one call of the
\* executor is explored against these.
ExecResponses ==
    { Template(st, JsonHeaders, "ok", c) : st \in {200, 399}, c \in Catalogs }
    \cup { Template(st, h, b, << >>) :
             st \in {400, 404, 429, 499, 500, 503, 599, 600},
             h \in HeaderChoices, b \in {"b1", "b2"} }

\* Responses of a whole run: a success, a permanent failure and a
\* retryable failure.
RunResponses ==
    { Template(201, JsonHeaders, "ok", c) : c \in Catalogs }
    \cup { Template(st, JsonHeaders, "b1", << >>) : st \in {400, 503} }

IssueKey(n) == <<"PROJ", n>>

\* The data of the response to the request in flight
ResponseData(t) ==
    IF t.status < 400
    THEN IF desc = "create issue"
         THEN [id |-> 10000 + Len(remote) + 1, key |-> IssueKey(Len(remote) + 1)]
         ELSE t.catalog
    ELSE t.body

Response(t) == [status |-> t.status, headers |-> t.headers, data |-> ResponseData(t)]

------------------------------------------------------------------------------
(* requestWithRetry *)

max == 5

InitialWait == 1000

WaitCap == 15000

NoRes == [status |-> 0, headers |-> JsonHeaders, data |-> "none"]

NoErr == [type |-> "none", desc |-> "", status |-> 0, data |-> "none"]

\* new Error(`${desc} failed (status ${res.status}): ${JSON.stringify(res.data)}`)
RequestError(d, r) == [type |-> "request", desc |-> d, status |-> r.status, data |-> r.data]

Min(a, b) == IF a <= b THEN a ELSE b

\* Every error status is retried
RetryableAnyError(st) == st >= 400

\* res.status === 429 || res.status >= 500
Retryable(st) == st = 429 \/ st >= 500

\* The budget is tested with > instead of >=
ShouldThrowOffByOne(a, st) == a > max \/ ~Retryable(st)

\* attempt >= max || !(res.status === 429 || res.status >= 500)
ShouldThrow(a, st) == a >= max \/ ~Retryable(st)

\* Number(res.headers["retry-after"]); a header that is absent reads as
\* undefined, and Number(undefined) is NaN
RetryAfter(r) ==
    IF "retry-after" \in DOMAIN r.headers
    THEN ToNumber(r.headers["retry-after"])
    ELSE NaN

\* !isNaN(retryAfter) ? retryAfter * 1000 : wait
SleepFor(r, w) ==
    LET retryAfter == RetryAfter(r) IN
    IF ~retryAfter.nan THEN retryAfter.val * 1000 ELSE w

\* wait = Math.min(wait * 2, 15000)
NextWait(w) == Min(w * 2, WaitCap)

\* The state at entry of requestWithRetry(fn, d)
CallExecutor(d) ==
    /\ xpc' = "call"
    /\ desc' = d
    /\ attempt' = 0
    /\ wait' = InitialWait
    /\ res' = NoRes
    /\ sleepMs' = 0

\* The caller has taken the result: the call's locals are gone
LeaveExecutor ==
    /\ xpc' = "idle"
    /\ desc' = ""
    /\ attempt' = 0
    /\ wait' = InitialWait
    /\ res' = NoRes
    /\ sleepMs' = 0

\* One turn of the loop up to its next await or exit: attempt++, await fn(),
\* then return res, throw, or compute the delay and start the timer.
Attempt(R) ==
    /\ xpc = "call"
    /\ \E t \in R :
         LET r == Response(t)
             a == attempt + 1
         IN
         /\ attempt' = a
         /\ res' = r
         /\ posted' = IF desc = "create issue" /\ attempt = 0
                      THEN Append(posted, idx) ELSE posted
         /\ remote' = IF desc = "create issue" /\ r.status < 400
                      THEN Append(remote, [row |-> idx, fields |-> fields,
                                           id |-> r.data.id, key |-> r.data.key])
                      ELSE remote
         /\ IF r.status < 400
            THEN /\ xpc' = "returned"
                 /\ UNCHANGED <<err, sleepMs>>
            ELSE IF ShouldThrow(a, r.status)
            THEN /\ xpc' = "thrown"
                 /\ err' = RequestError(desc, r)
                 /\ UNCHANGED sleepMs
            ELSE /\ xpc' = "sleep"
                 /\ sleepMs' = SleepFor(r, wait)
                 /\ UNCHANGED err
    /\ UNCHANGED <<rows, env, pc, pass, idx, schema, epicMap, fields, desc, wait,
                   report, exitCode>>

\* The timer fired: wait doubles and the loop turns again (sleepMs, a const
\* of the loop body, is gone).
Wake ==
    /\ xpc = "sleep"
    /\ wait' = NextWait(wait)
    /\ sleepMs' = 0
    /\ xpc' = "call"
    /\ UNCHANGED <<rows, env, pc, pass, idx, schema, epicMap, fields, desc, attempt,
                   res, err, remote, posted, report, exitCode>>

------------------------------------------------------------------------------
(* getFields *)

\* res.data.find(f => f.name.toLowerCase() === name)?.id || null
FindFieldId(data, name) ==
    LET hits == { i \in DOMAIN data : ToLowerCase(data[i].name) = name } IN
    IF hits = {} THEN null
    ELSE data[CHOOSE i \in hits : \A j \in hits : i <= j].id

getFields(data) ==
    [ epicLinkId    |-> FindFieldId(data, sEpicLinkName),
      storyPointsId |-> FindFieldId(data, sStoryPointsName),
      epicNameId    |-> FindFieldId(data, sEpicNameName) ]

\* Before getFields has resolved
NoSchema == [epicLinkId |-> "undefined", storyPointsId |-> "undefined",
             epicNameId |-> "undefined"]

------------------------------------------------------------------------------
(* The Map of main: entries in insertion order; set on a key that is       *)
(* present replaces its value in place.                                    *)

MapKeys(m) == { m[i].k : i \in DOMAIN m }

MapHas(m, k) == k \in MapKeys(m)

MapGet(m, k) == m[CHOOSE i \in DOMAIN m : m[i].k = k].v

\* A key that is present keeps its first value
MapSetKeepFirst(m, k, v) ==
    IF MapHas(m, k) THEN m ELSE Append(m, [k |-> k, v |-> v])

\* The Map is made anew on every set
MapSetFresh(m, k, v) == <<[k |-> k, v |-> v]>>

MapSet(m, k, v) ==
    IF MapHas(m, k)
    THEN [i \in DOMAIN m |-> IF m[i].k = k THEN [k |-> k, v |-> v] ELSE m[i]]
    ELSE Append(m, [k |-> k, v |-> v])

------------------------------------------------------------------------------
(* ADF builders *)

\* /^https?:\/\/\S+$/i.test(s.trim())
isLikelyUrl(s) ==
    LET t == ToLowerCase(Trim(s))
        AfterScheme(p) ==
            /\ StartsWith(t, p)
            /\ Len(t) > Len(p)
            /\ \A i \in (Len(p) + 1)..Len(t) : ~IsWhitespace(t[i])
    IN AfterScheme(sHttp) \/ AfterScheme(sHttps)

adfTextNode(text) == [type |-> "text", text |-> text]

adfLinkNode(url) ==
    [type |-> "text", text |-> url,
     marks |-> <<[type |-> "link", attrs |-> [href |-> url]]>>]

\* String(description).replace(/\r\n/g, "\n").split("\n")
RECURSIVE SplitLines(_, _)
SplitLines(s, cur) ==
    IF s = << >> THEN <<cur>>
    ELSE IF Head(s) = "\r" /\ Len(s) >= 2 /\ s[2] = "\n"
    THEN <<cur>> \o SplitLines(Tail(Tail(s)), << >>)
    ELSE IF Head(s) = "\n"
    THEN <<cur>> \o SplitLines(Tail(s), << >>)
    ELSE SplitLines(Tail(s), Append(cur, Head(s)))

Paragraph(line) ==
    LET t == Trim(line) IN
    IF t = << >> THEN [type |-> "paragraph"]
    ELSE IF isLikelyUrl(t)
    THEN [type |-> "paragraph", content |-> <<adfLinkNode(t)>>]
    ELSE [type |-> "paragraph", content |-> <<adfTextNode(line)>>]

NullDoc == [type |-> "null"]

toADF(description) ==
    IF Trim(description) = << >> THEN NullDoc
    ELSE LET lines == SplitLines(description, << >>) IN
         [version |-> 1, type |-> "doc",
          content |-> [i \in DOMAIN lines |-> Paragraph(lines[i])]]

------------------------------------------------------------------------------
(* buildFields *)

Put(f, k, v) == [x \in DOMAIN f \cup {k} |-> IF x = k THEN v ELSE f[x]]

\* x?.trim() || fallback
TrimOr(x, fallback) == IF Trim(x) # << >> THEN Trim(x) ELSE fallback

\* (row["Labels"] || "").split(/[,; ]+/).filter(Boolean)
RECURSIVE SplitLabels(_, _)
SplitLabels(s, cur) ==
    IF s = << >> THEN IF cur = << >> THEN << >> ELSE <<cur>>
    ELSE IF Head(s) \in {",", ";", " "}
    THEN (IF cur = << >> THEN << >> ELSE <<cur>>) \o SplitLabels(Tail(s), << >>)
    ELSE SplitLabels(Tail(s), Append(cur, Head(s)))

\* String(process.env.TEAM_MANAGED || "false").toLowerCase() === "true"
isTeamManaged == ToLowerCase(IF env # << >> THEN env ELSE sFalse) = sTrue

\* The comparison without toLowerCase()
IsEpicTypeCaseSensitive(issueType) == issueType = sEpicLower

\* issueType.toLowerCase() === "epic"
IsEpicType(issueType) == ToLowerCase(issueType) = sEpicLower

\* issueType.toLowerCase() === "sub-task"
IsSubTaskType(issueType) == ToLowerCase(issueType) = sSubTaskLower

\* The Summary is tested as the cell holds it
buildFieldsThrowsUntrimmed(row) == row.Summary = << >>

\* An Epic Link that is not in the Map makes buildFields throw too
buildFieldsThrowsOnUnresolved(row) ==
    \/ Trim(row.Summary) = << >>
    \/ Trim(row.EpicLink) # << >> /\ ~MapHas(epicMap, Trim(row.EpicLink))

\* if (!summary) throw new Error("Row missing 'Summary'")
buildFieldsThrows(row) == Trim(row.Summary) = << >>

ValidationError == [type |-> "validation", desc |-> "Row missing 'Summary'",
                    status |-> 0, data |-> "none"]

\* project, issuetype, summary, labels, description and story points
CommonFields(row, opts) ==
    LET base == ("project" :> [key |-> TrimOr(row.ProjectKey, PROJECT_KEY)])
                @@ ("issuetype" :> [name |-> TrimOr(row.IssueType, sTask)])
                @@ ("summary" :> Trim(row.Summary))
                @@ ("labels" :> SplitLabels(row.Labels, << >>))
        adf == toADF(row.Description)
        described == IF adf # NullDoc THEN Put(base, "description", adf) ELSE base
        sp == ToNumber(row.StoryPoints)
    IN IF row.StoryPoints # << >> /\ opts.storyPointsId # null /\ ~sp.nan
       THEN Put(described, opts.storyPointsId, sp.val)
       ELSE described

\* The Epics branch: the Epic Name custom field, then return
EpicFields(f, row, opts) ==
    IF ~isTeamManaged /\ opts.epicNameId # null
    THEN Put(f, opts.epicNameId, TrimOr(row.EpicName, Trim(row.Summary)))
    ELSE f

\* Sub-task -> Parent
ParentFields(f, row, opts) ==
    LET parentId == Trim(row.ParentId) IN
    IF /\ IsSubTaskType(TrimOr(row.IssueType, sTask))
       /\ parentId # << >>
       /\ MapHas(opts.epicMap, parentId)
    THEN Put(f, "parent", [id |-> MapGet(opts.epicMap, parentId).id])
    ELSE f

\* Link to Epic
EpicLinkFields(f, row, opts) ==
    LET epicLink == Trim(row.EpicLink) IN
    IF epicLink # << >> /\ MapHas(opts.epicMap, epicLink)
    THEN LET epic == MapGet(opts.epicMap, epicLink) IN
         IF isTeamManaged THEN Put(f, "parent", [id |-> epic.id])
         ELSE IF opts.epicLinkId # null THEN Put(f, opts.epicLinkId, epic.key)
         ELSE f
    ELSE f

\* The payload of a row whose Summary is not empty
buildFields(row, opts) ==
    LET common == CommonFields(row, opts) IN
    IF IsEpicType(TrimOr(row.IssueType, sTask))
    THEN EpicFields(common, row, opts)
    ELSE EpicLinkFields(ParentFields(common, row, opts), row, opts)

Opts(s, m) == [epicLinkId |-> s.epicLinkId, storyPointsId |-> s.storyPointsId,
               epicNameId |-> s.epicNameId, epicMap |-> m]

NoFields == "none" :> "none"

------------------------------------------------------------------------------
(* main *)

\* A single pass over the rows in file order, instead of epics first
InPassSinglePass(p, row) == p = 1

\* The filter of pass 2 compares the Issue Type as the cell holds it
InPassSecondCaseSensitive(p, row) ==
    IF p = 1 THEN ToLowerCase(row.IssueType) = sEpicLower
             ELSE row.IssueType # sEpicLower

\* (row["Issue Type"] || "").toLowerCase() === "epic" in pass 1, !== in pass 2
InPass(p, row) ==
    IF p = 1
    THEN ToLowerCase(row.IssueType) = sEpicLower
    ELSE ToLowerCase(row.IssueType) # sEpicLower

\* (row["Issue Id"] || row["Summary"]).trim()
LocalId(row) == Trim(IF row.IssueId # << >> THEN row.IssueId ELSE row.Summary)

\* rows.length is 0: "CSV has no data rows.", exit(1); otherwise getFields()
\* sends its request.
CheckRows ==
    /\ pc = "parsed"
    /\ IF rows = << >>
       THEN /\ pc' = "exited"
            /\ exitCode' = 1
            /\ UNCHANGED execVars
       ELSE /\ pc' = "fields"
            /\ CallExecutor("get fields")
            /\ UNCHANGED exitCode
    /\ UNCHANGED <<rows, env, pass, idx, schema, epicMap, fields, err, remote,
                   posted, report>>

\* getFields() resolves: the three ids are read off the catalog, the Map is
\* made and pass 1 starts.
FieldsDone ==
    /\ pc = "fields"
    /\ xpc = "returned"
    /\ schema' = getFields(res.data)
    /\ epicMap' = << >>
    /\ pass' = 1
    /\ idx' = 1
    /\ pc' = "loop"
    /\ LeaveExecutor
    /\ UNCHANGED <<rows, env, fields, err, remote, posted, report, exitCode>>

\* A row the running pass does not take
SkipRow ==
    /\ pc = "loop"
    /\ idx <= Len(rows)
    /\ ~InPass(pass, rows[idx])
    /\ idx' = idx + 1
    /\ UNCHANGED <<rows, env, pc, pass, schema, epicMap, fields, err, remote,
                   posted, report, exitCode>>
    /\ UNCHANGED execVars

\* A row of the running pass: buildFields returns and createIssue sends the payload
BuildRow ==
    /\ pc = "loop"
    /\ idx <= Len(rows)
    /\ InPass(pass, rows[idx])
    /\ ~buildFieldsThrows(rows[idx])
    /\ fields' = buildFields(rows[idx], Opts(schema, epicMap))
    /\ pc' = "create"
    /\ CallExecutor("create issue")
    /\ UNCHANGED <<rows, env, pass, idx, schema, epicMap, err, remote, posted,
                   report, exitCode>>

\* A row of the running pass: buildFields throws
BuildThrows ==
    /\ pc = "loop"
    /\ idx <= Len(rows)
    /\ InPass(pass, rows[idx])
    /\ buildFieldsThrows(rows[idx])
    /\ err' = ValidationError
    /\ pc' = "catch"
    /\ UNCHANGED <<rows, env, pass, idx, schema, epicMap, fields, remote, posted,
                   report, exitCode>>
    /\ UNCHANGED execVars

\* The pair is set in the Map under the row's Summary
RowCreatedUnderSummary ==
    /\ pc = "create"
    /\ xpc = "returned"
    /\ epicMap' = MapSet(epicMap, Trim(rows[idx].Summary),
                         [id |-> res.data.id, key |-> res.data.key])
    /\ idx' = idx + 1
    /\ pc' = "loop"
    /\ fields' = NoFields
    /\ LeaveExecutor
    /\ UNCHANGED <<rows, env, pass, schema, err, remote, posted, report, exitCode>>

\* createIssue resolves with res.data: the row's local id is set in the Map
RowCreated ==
    /\ pc = "create"
    /\ xpc = "returned"
    /\ epicMap' = MapSet(epicMap, LocalId(rows[idx]),
                         [id |-> res.data.id, key |-> res.data.key])
    /\ idx' = idx + 1
    /\ pc' = "loop"
    /\ fields' = NoFields
    /\ LeaveExecutor
    /\ UNCHANGED <<rows, env, pass, schema, err, remote, posted, report, exitCode>>

\* Pass 1 is through the rows: pass 2 starts at the first row
NextPass ==
    /\ pc = "loop"
    /\ idx > Len(rows)
    /\ pass = 1
    /\ pass' = 2
    /\ idx' = 1
    /\ UNCHANGED <<rows, env, pc, schema, epicMap, fields, err, remote, posted,
                   report, exitCode>>
    /\ UNCHANGED execVars

\* The report is written at the end of either pass
WriteReportAfterAnyPass ==
    /\ pc = "loop"
    /\ idx > Len(rows)
    /\ report' = Append(report, epicMap)
    /\ pc' = "exited"
    /\ UNCHANGED <<rows, env, pass, idx, schema, epicMap, fields, err, remote,
                   posted, exitCode>>
    /\ UNCHANGED execVars

\* Pass 2 is through the rows: fs.writeFileSync("import-report.json", [...epicMap]),
\* main returns and the process ends.
WriteReport ==
    /\ pc = "loop"
    /\ idx > Len(rows)
    /\ pass = 2
    /\ report' = Append(report, epicMap)
    /\ pc' = "exited"
    /\ UNCHANGED <<rows, env, pass, idx, schema, epicMap, fields, err, remote,
                   posted, exitCode>>
    /\ UNCHANGED execVars

IOError == [type |-> "io", desc |-> "writeFileSync", status |-> 0, data |-> "none"]

\* fs.writeFileSync throws
WriteReportFails ==
    /\ pc = "loop"
    /\ idx > Len(rows)
    /\ pass = 2
    /\ err' = IOError
    /\ pc' = "catch"
    /\ UNCHANGED <<rows, env, pass, idx, schema, epicMap, fields, remote, posted,
                   report, exitCode>>
    /\ UNCHANGED execVars

\* The failed row is skipped and the loop goes on
CatchSkipsRow ==
    /\ pc \in {"fields", "create", "catch"}
    /\ pc = "catch" \/ xpc = "thrown"
    /\ pc' = "loop"
    /\ idx' = idx + 1
    /\ LeaveExecutor
    /\ UNCHANGED <<rows, env, pass, schema, epicMap, fields, err, remote, posted,
                   report, exitCode>>

\* The row whose request failed is set in the Map with an empty pair
CatchRecordsFailure ==
    /\ pc \in {"fields", "create", "catch"}
    /\ pc = "catch" \/ xpc = "thrown"
    /\ epicMap' = IF pc = "create"
                  THEN MapSet(epicMap, LocalId(rows[idx]), [id |-> 0, key |-> << >>])
                  ELSE epicMap
    /\ pc' = "exited"
    /\ exitCode' = 1
    /\ UNCHANGED <<rows, env, pass, idx, schema, fields, err, remote, posted,
                   report>>
    /\ UNCHANGED execVars

\* catch (err): "Import failed:", process.exit(1)
Catch ==
    /\ pc \in {"fields", "create", "catch"}
    /\ pc = "catch" \/ xpc = "thrown"
    /\ pc' = "exited"
    /\ exitCode' = 1
    /\ UNCHANGED <<rows, env, pass, idx, schema, epicMap, fields, err, remote,
                   posted, report>>
    /\ UNCHANGED execVars

------------------------------------------------------------------------------
(* Inputs *)

Row(type, id, summary, epicLink, parentId) ==
    [ IssueType |-> type, IssueId |-> id, Summary |-> summary,
      EpicLink |-> epicLink, ParentId |-> parentId,
      ProjectKey |-> << >>, Labels |-> << >>, Description |-> << >>,
      StoryPoints |-> << >>, EpicName |-> << >> ]

sE1      == <<"E","1">>
sRelease == <<"R","e","l","e","a","s","e">>
sFixBug  == <<"F","i","x"," ","b","u","g">>
sSub     == <<"S","u","b">>
sEpic    == <<"E","p","i","c">>
sEPIC    == <<"E","P","I","C">>
sEpicPadded == <<" ","E","p","i","c">>
sRel     == <<"R","e","l">>
sSubTask == <<"S","u","b","-","t","a","s","k">>

\* An epic with Issue Id E1
rEpic      == Row(sEpic, sE1, sRelease, << >>, << >>)
\* An epic without Issue Id, whose Summary E1 is its local id
rEpicUpper == Row(sEPIC, << >>, sE1, << >>, << >>)
\* A task linked to E1
rTask      == Row(sTask, << >>, sFixBug, sE1, << >>)
\* A row with only its Summary populated; the Summary E1 is its local id
rStory     == Row(<< >>, << >>, sE1, << >>, << >>)
\* A sub-task of the task "Fix bug", linked to E1
rSub       == Row(sSubTask, << >>, sSub, sE1, sFixBug)
\* A task whose Summary is blank
rBlank     == Row(sTask, <<"X">>, <<" ">>, << >>, << >>)

\* A row whose quoted Issue Type cell is " Epic", linked to E1
rPadded    == Row(sEpicPadded, << >>, sRel, sE1, << >>)

RunRows == {rEpic, rEpicUpper, rTask, rStory, rSub, rBlank, rPadded}

\* TEAM_MANAGED: unset, or TRUE
RunEnvs == { << >>, <<"T","R","U","E">> }

Files == UNION { [1..n -> RunRows] : n \in 0..MaxRows }

------------------------------------------------------------------------------
(* The whole run *)

Init ==
    /\ rows \in Files
    /\ env \in RunEnvs
    /\ pc = "parsed"
    /\ pass = 1
    /\ idx = 1
    /\ schema = NoSchema
    /\ epicMap = << >>
    /\ fields = NoFields
    /\ xpc = "idle"
    /\ desc = ""
    /\ attempt = 0
    /\ wait = InitialWait
    /\ res = NoRes
    /\ sleepMs = 0
    /\ err = NoErr
    /\ remote = << >>
    /\ posted = << >>
    /\ report = << >>
    /\ exitCode = 0

AttemptRun == Attempt(RunResponses)

Next ==
    \/ CheckRows
    \/ AttemptRun
    \/ Wake
    \/ FieldsDone
    \/ SkipRow
    \/ BuildRow
    \/ BuildThrows
    \/ RowCreated
    \/ NextPass
    \/ WriteReport
    \/ WriteReportFails
    \/ Catch

Spec == Init /\ [][Next]_vars

------------------------------------------------------------------------------
(* One call of requestWithRetry, against every class of response: the      *)
(* field-catalog request of getFields, or the create request of the first  *)
(* row of a one-epic file.                                                 *)

InitExec ==
    /\ rows = <<rEpic>>
    /\ env = << >>
    /\ pass = 1
    /\ idx = 1
    /\ epicMap = << >>
    /\ xpc = "call"
    /\ attempt = 0
    /\ wait = InitialWait
    /\ res = NoRes
    /\ sleepMs = 0
    /\ err = NoErr
    /\ remote = << >>
    /\ posted = << >>
    /\ report = << >>
    /\ exitCode = 0
    /\ \/ /\ pc = "fields"
          /\ desc = "get fields"
          /\ schema = NoSchema
          /\ fields = NoFields
       \/ /\ pc = "create"
          /\ desc = "create issue"
          /\ schema \in { getFields(c) : c \in Catalogs }
          /\ fields = buildFields(rEpic, Opts(schema, << >>))

AttemptExec == Attempt(ExecResponses)

NextExec ==
    \/ AttemptExec
    \/ Wake

SpecExec == InitExec /\ [][NextExec]_vars

\* fn() resolves with a response and the timer of setTimeout fires
SpecExecFair == SpecExec /\ WF_vars(AttemptExec) /\ WF_vars(Wake)

------------------------------------------------------------------------------
(* One call of buildFields from main's loop, over rows, schemas, Maps and  *)
(* modes.                                                                  *)

sE2   == <<"E","2">>
sE9   == <<"E","9">>
sSubTaskUpper == <<"S","U","B","-","T","A","S","K">>
sLabels == <<"a",","," ","b",";","c">>
sDescription == <<"h","i","\n","\n","H","T","T","P",":","/","/","x"," ","\r","\n"," ","y">>

MapperRows ==
    { [ IssueType |-> type, IssueId |-> << >>, Summary |-> summary,
        EpicLink |-> epicLink, ParentId |-> parentId,
        ProjectKey |-> text[1], Labels |-> text[2], Description |-> text[3],
        StoryPoints |-> points, EpicName |-> epicName ] :
      type \in {sEpic, sEpicLower, sEPIC, sEpicPadded, sTask, sSubTask,
                sSubTaskUpper, << >>},
      summary \in {sRelease, <<" ">>},
      epicLink \in {<< >>, sE1, sE9},
      parentId \in {<< >>, sE1, sE2},
      points \in {<< >>, <<"5">>, <<"a","b","c">>, <<" ">>},
      epicName \in {<< >>, sRel},
      text \in { << << >>, << >>, << >> >>, << <<"K">>, sLabels, sDescription >> } }

Ids(a, b, c) == [epicLinkId |-> a, storyPointsId |-> b, epicNameId |-> c]

Schemas ==
    { Ids(a, b, c) : a \in {null, FieldEpicLink.id},
                     b \in {null, FieldStoryPoints.id},
                     c \in {null, FieldEpicName.id} }

Entry(k, n) == [k |-> k, v |-> [id |-> 10000 + n, key |-> IssueKey(n)]]

MapperMaps == { << >>, <<Entry(sE1, 1)>>, <<Entry(sE2, 1), Entry(sE1, 2)>> }

\* TEAM_MANAGED: unset, true, yes
MapperEnvs == { << >>, sTrue, <<"y","e","s">> }

InitMapper ==
    /\ rows \in { <<r>> : r \in MapperRows }
    /\ env \in MapperEnvs
    /\ schema \in Schemas
    /\ epicMap \in MapperMaps
    /\ pc = "loop"
    /\ pass = IF InPass(1, rows[1]) THEN 1 ELSE 2
    /\ idx = 1
    /\ fields = NoFields
    /\ xpc = "idle"
    /\ desc = ""
    /\ attempt = 0
    /\ wait = InitialWait
    /\ res = NoRes
    /\ sleepMs = 0
    /\ err = NoErr
    /\ remote = << >>
    /\ posted = << >>
    /\ report = << >>
    /\ exitCode = 0

NextMapper ==
    \/ BuildRow
    \/ BuildThrows

SpecMapper == InitMapper /\ [][NextMapper]_vars

------------------------------------------------------------------------------
(* Vocabulary of the properties *)

\* The row's Issue Type case-insensitively equals "epic"
IsEpicRow(row) == ToLowerCase(row.IssueType) = sEpicLower

\* The rows the destination has created
CreatedRows == { remote[k].row : k \in DOMAIN remote }

\* The destination's record of row i
RecordOf(i) == remote[CHOOSE k \in DOMAIN remote : remote[k].row = i]

\* The rows whose local id is L
RowsWithLocalId(L) == { i \in DOMAIN rows : LocalId(rows[i]) = L }

------------------------------------------------------------------------------
(* C1: in every run the create requests of the epic rows are all sent and  *)
(* answered with success before the first create request of a non-epic row *)
(* is sent; the epic rows are submitted in source order, and so are the    *)
(* non-epic rows.                                                          *)

C1_PhaseOrder ==
    LET epic == [i \in DOMAIN rows |-> IsEpicRow(rows[i])] IN
    /\ \A i, j \in DOMAIN posted :
         i < j =>
           /\ epic[posted[j]] => epic[posted[i]]
           /\ epic[posted[i]] = epic[posted[j]] => posted[i] < posted[j]
    /\ (\E i \in DOMAIN posted : ~epic[posted[i]])
         => \A e \in DOMAIN rows : epic[e] => e \in CreatedRows

\* A file with a non-epic row before an epic row, both submitted
C1_Witness ==
    \E i, j \in DOMAIN rows :
        /\ i < j
        /\ ~IsEpicRow(rows[i])
        /\ IsEpicRow(rows[j])
        /\ \E a, b \in DOMAIN posted : posted[a] = i /\ posted[b] = j

------------------------------------------------------------------------------
(* C2: when exactly one row has local id L and it is an epic, then at the  *)
(* moment the payload of a non-epic row whose trimmed Epic Link is L has   *)
(* been built, the Map contains L and the payload references the record    *)
(* created for that epic: by id as parent in team-managed mode, by key in  *)
(* the epic-link field in company-managed mode with that field resolved;   *)
(* wherever the epic row sits in the file.                                 *)

\* The payload of rows[idx] is built and on its way
PayloadBuilt == pc = "create"

\* rows[idx] is a non-epic row linked to the only row with its local id, epic e
LinksToEpic(e) ==
    /\ PayloadBuilt
    /\ ~IsEpicRow(rows[idx])
    /\ Trim(rows[idx].EpicLink) # << >>
    /\ RowsWithLocalId(Trim(rows[idx].EpicLink)) = {e}
    /\ IsEpicRow(rows[e])

\* C2: the payload of a row linked to the only row with local id L, an epic,
\* references the record created for that epic
C2_EpicLinkResolved ==
    \A e \in DOMAIN rows :
        LinksToEpic(e) =>
            /\ MapHas(epicMap, Trim(rows[idx].EpicLink))
            /\ e \in CreatedRows
            /\ isTeamManaged =>
                 /\ "parent" \in DOMAIN fields
                 /\ fields["parent"] = [id |-> RecordOf(e).id]
            /\ (~isTeamManaged /\ schema.epicLinkId # null) =>
                 /\ schema.epicLinkId \in DOMAIN fields
                 /\ fields[schema.epicLinkId] = RecordOf(e).key

------------------------------------------------------------------------------
(* C3, as claimed: one call of the executor invokes fn at most 5 times,    *)
(* returns the first response with status < 400 without a further          *)
(* invocation, makes another attempt only after a response with status 429 *)
(* or 500-599, and after any other 4xx status fails at once, with no       *)
(* further invocation and no sleep.                                        *)

\* fn has been invoked and res is its latest response
Responded == attempt >= 1

\* The call is going on to another invocation
GoingOn == xpc \in {"sleep", "call"}

C3_Bounded == attempt <= max

C3_SuccessReturns == (Responded /\ res.status < 400) <=> xpc = "returned"

C3_Other4xxFails ==
    (Responded /\ res.status \in 400..499 /\ res.status # 429)
        => xpc = "thrown" /\ sleepMs = 0

\* C3, as claimed: the retry policy with retries after 429 or 500-599 only
C3_Original ==
    /\ C3_Bounded
    /\ C3_SuccessReturns
    /\ (Responded /\ GoingOn) => (res.status = 429 \/ res.status \in 500..599)
    /\ C3_Other4xxFails

(* C3, amended: as above, with another attempt made only after a response  *)
(* with status 429 or >= 500 (a status of 600 or more is retried too).     *)

\* C3, amended: the retry policy with retries after 429 or any status >= 500
C3_RetryPolicy ==
    /\ C3_Bounded
    /\ C3_SuccessReturns
    /\ (Responded /\ GoingOn) => (res.status = 429 \/ res.status >= 500)
    /\ C3_Other4xxFails

\* The fifth invocation succeeds, after four retries
C3_Witness == attempt = max /\ xpc = "returned" /\ wait = WaitCap

------------------------------------------------------------------------------
(* C4, as claimed: before each retry the executor sleeps exactly            *)
(* Retry-After x 1000 ms when the failed response carries a numeric         *)
(* Retry-After header, and otherwise the internal backoff timer, which      *)
(* starts at 1000 ms, doubles each retry and is capped at 15000 ms.         *)

\* The response carries a Retry-After header whose value is a number
HasNumericRetryAfter(r) ==
    /\ "retry-after" \in DOMAIN r.headers
    /\ Trim(r.headers["retry-after"]) # << >>
    /\ \A i \in DOMAIN Trim(r.headers["retry-after"]) :
           IsDigit(Trim(r.headers["retry-after"])[i])

\* The sleeps that are over
SleepsDone == IF xpc = "call" THEN attempt ELSE attempt - 1

\* The internal timer after n retries
BackoffAfter(n) == Min(1000 * 2^n, 15000)

\* C4: the delay before a retry is Retry-After x 1000 ms for a numeric header
\* and the internal timer otherwise; the timer is 1000 ms doubled per retry,
\* capped at 15000 ms
C4_Sleep ==
    /\ Responded => wait = BackoffAfter(SleepsDone)
    /\ xpc = "sleep" =>
         sleepMs = IF HasNumericRetryAfter(res)
                   THEN DecimalValue(Trim(res.headers["retry-after"])) * 1000
                   ELSE wait

------------------------------------------------------------------------------
(* C5: the executor always terminates; when all 5 attempts return a         *)
(* retryable status (429 or >= 500) it fails after the 5th response with an *)
(* error carrying the status and body of that response, without sleeping    *)
(* after it and without a 6th invocation; every execution ends in exactly   *)
(* one of Succeeded, PermanentlyFailed, RetriesExhausted.                   *)

Done == xpc \in {"returned", "thrown"}

Succeeded == xpc = "returned" /\ res.status < 400

PermanentlyFailed ==
    /\ xpc = "thrown"
    /\ err.status >= 400
    /\ ~(err.status = 429 \/ err.status >= 500)

RetriesExhausted ==
    /\ xpc = "thrown"
    /\ (err.status = 429 \/ err.status >= 500)
    /\ attempt = max

C5_Outcome ==
    /\ attempt <= max
    /\ (attempt = max /\ (res.status = 429 \/ res.status >= 500)) =>
          /\ xpc = "thrown"
          /\ err = [type |-> "request", desc |-> desc, status |-> res.status,
                    data |-> res.data]
          /\ sleepMs = 0
    /\ Done =>
          /\ Succeeded \/ PermanentlyFailed \/ RetriesExhausted
          /\ ~(Succeeded /\ PermanentlyFailed)
          /\ ~(Succeeded /\ RetriesExhausted)
          /\ ~(PermanentlyFailed /\ RetriesExhausted)

\* C5: the call ends, and it ends as the claim says
C5_Terminates == <>Done /\ []C5_Outcome

\* Five retryable responses in a row
C5_Witness == RetriesExhausted /\ res.status = 429

------------------------------------------------------------------------------
(* C6: when buildFields throws for a row, or the create request of a row   *)
(* fails for good or exhausts its retries, the run aborts at once: no      *)
(* create request is sent for a later row, no report is written, the       *)
(* process exits non-zero, and the Map and the records created so far are  *)
(* left as they are; no record is ever deleted.                            *)

RowFailed == err.type \in {"validation", "request"}

IsPrefix(a, b) == Len(a) <= Len(b) /\ SubSeq(b, 1, Len(a)) = a

C6_AbortStep ==
    /\ IsPrefix(remote, remote')
    /\ RowFailed' =>
         /\ epicMap' = epicMap
         /\ remote' = remote
         /\ report' = << >>
    /\ RowFailed =>
         /\ posted' = posted
         /\ attempt' = attempt
         /\ xpc' # "call"
         /\ pc' = "exited"
         /\ exitCode' = 1

\* C6: every step leaves the created records in place, and after a row has
\* failed the only step is the exit with code 1, with nothing else changed
C6_Abort == [][C6_AbortStep]_vars

\* A create request failed after a row was created and before the last row
C6_Witness ==
    /\ pc = "exited"
    /\ err.type = "request"
    /\ desc = "create issue"
    /\ remote # << >>
    /\ Len(posted) < Len(rows)

------------------------------------------------------------------------------
(* C7: the report is written at most once per run, and only after the      *)
(* field-catalog request and the create request of every row have          *)
(* succeeded; its content is the final Map as a list of                    *)
(* (localId, {id, key}) pairs, and the process then exits with zero.       *)

C7_Report ==
    /\ Len(report) <= 1
    /\ report # << >> =>
         /\ schema # NoSchema
         /\ CreatedRows = DOMAIN rows
         /\ report[1] = epicMap
         /\ \A k \in DOMAIN report[1] :
                /\ DOMAIN report[1][k] = {"k", "v"}
                /\ DOMAIN report[1][k].v = {"id", "key"}
         /\ pc = "exited"
         /\ exitCode = 0
         /\ err = NoErr

\* A report of two entries
C7_Witness == report # << >> /\ Len(rows) >= 2 /\ Len(report[1]) >= 2

------------------------------------------------------------------------------
(* C8, as claimed: for any two rows with the same local id, after a        *)
(* successful run the report holds a single entry for that local id and    *)
(* its {id, key} pair is the one returned for the second of the two rows,  *)
(* the one later in the file.                                              *)

EntriesFor(m, L) == { k \in DOMAIN m : m[k].k = L }

PairOf(i) == [id |-> RecordOf(i).id, key |-> RecordOf(i).key]

\* C8, as claimed: the later row in the file wins
C8_Original ==
    report # << >> =>
        \A i, j \in DOMAIN rows :
            (i < j /\ LocalId(rows[i]) = LocalId(rows[j])) =>
                /\ Cardinality(EntriesFor(report[1], LocalId(rows[j]))) = 1
                /\ MapGet(report[1], LocalId(rows[j])) = PairOf(j)

(* C8, amended: for the rows that share a local id, after a successful run *)
(* the report holds a single entry for that local id and its {id, key}     *)
(* pair is the one returned for the row among them that was created last:  *)
(* the latest in the file of the non-epic ones, or, when all of them are   *)
(* epics, the latest in the file.                                          *)

\* The place of row i in the order of creation: epics first, then the rest
CreationRank(i) == (IF IsEpicRow(rows[i]) THEN 0 ELSE Len(rows)) + i

LastCreated(L) ==
    CHOOSE i \in RowsWithLocalId(L) :
        \A j \in RowsWithLocalId(L) : CreationRank(j) <= CreationRank(i)

\* C8, amended: the row created last wins
C8_LastCreatedWins ==
    report # << >> =>
        \A i \in DOMAIN rows :
            /\ Cardinality(EntriesFor(report[1], LocalId(rows[i]))) = 1
            /\ MapGet(report[1], LocalId(rows[i])) = PairOf(LastCreated(LocalId(rows[i])))

\* A non-epic row followed in the file by an epic row with the same local id
C8_Witness ==
    /\ report # << >>
    /\ \E i, j \in DOMAIN rows :
           /\ i < j
           /\ LocalId(rows[i]) = LocalId(rows[j])
           /\ ~IsEpicRow(rows[i])
           /\ IsEpicRow(rows[j])

------------------------------------------------------------------------------
(* C9: across every step of a run, retries, failed requests and the abort  *)
(* included, the set of local ids in the Map never loses an element.       *)

C9_KeysGrow == [][MapKeys(epicMap) \subseteq MapKeys(epicMap')]_vars

\* An abort with two local ids in the Map
C9_Witness ==
    /\ Cardinality(MapKeys(epicMap)) >= 2
    /\ err.type = "request"
    /\ pc = "exited"

------------------------------------------------------------------------------
(* C10: for a row whose Issue Type case-insensitively equals "epic", the   *)
(* payload of buildFields holds neither a parent reference nor the         *)
(* epic-link custom field, whatever its Parent Id and Epic Link, the Map,  *)
(* the schema and the mode.                                                *)

C10_EpicUnlinked ==
    (PayloadBuilt /\ IsEpicRow(rows[idx])) =>
        /\ "parent" \notin DOMAIN fields
        /\ FieldEpicLink.id \notin DOMAIN fields

\* An epic row whose Parent Id and Epic Link are both in the Map, with the
\* epic-link field resolved
C10_Witness ==
    /\ PayloadBuilt
    /\ IsEpicRow(rows[idx])
    /\ rows[idx].IssueType # sEpicLower
    /\ Trim(rows[idx].EpicLink) # << >>
    /\ MapHas(epicMap, Trim(rows[idx].EpicLink))
    /\ Trim(rows[idx].ParentId) # << >>
    /\ MapHas(epicMap, Trim(rows[idx].ParentId))
    /\ schema.epicLinkId = FieldEpicLink.id

------------------------------------------------------------------------------
(* C11: for a non-epic row whose non-empty Epic Link is in the Map, only    *)
(* the mode decides: in team-managed mode the payload holds a parent        *)
(* reference with the found entry's id and no epic-link custom field; in    *)
(* company-managed mode with the epic-link field resolved it holds that     *)
(* field set to the found entry's key, and the epic link adds no parent     *)
(* reference.                                                               *)

\* The payload of rows[idx], a non-epic row, is built and its Epic Link is in the Map
EpicLinkFound ==
    /\ PayloadBuilt
    /\ ~IsEpicRow(rows[idx])
    /\ Trim(rows[idx].EpicLink) # << >>
    /\ MapHas(epicMap, Trim(rows[idx].EpicLink))

\* rows[idx] is a sub-task whose Parent Id is in the Map
ParentFound ==
    /\ ToLowerCase(rows[idx].IssueType) = sSubTaskLower
    /\ Trim(rows[idx].ParentId) # << >>
    /\ MapHas(epicMap, Trim(rows[idx].ParentId))

\* C11: the mode decides how the found epic is referenced
C11_ModeDecides ==
    EpicLinkFound =>
        LET epic == MapGet(epicMap, Trim(rows[idx].EpicLink)) IN
        /\ isTeamManaged =>
             /\ "parent" \in DOMAIN fields
             /\ fields["parent"] = [id |-> epic.id]
             /\ FieldEpicLink.id \notin DOMAIN fields
        /\ (~isTeamManaged /\ schema.epicLinkId # null) =>
             /\ schema.epicLinkId \in DOMAIN fields
             /\ fields[schema.epicLinkId] = epic.key
             /\ "parent" \in DOMAIN fields =>
                  /\ ParentFound
                  /\ fields["parent"] =
                       [id |-> MapGet(epicMap, Trim(rows[idx].ParentId)).id]

------------------------------------------------------------------------------
(* C12: buildFields never fails for a row with only Summary populated and   *)
(* fails with the validation error whenever Summary is absent, empty or     *)
(* whitespace-only; main builds the payload before the row's create         *)
(* request, so no create request is ever sent for a row with an empty       *)
(* Summary.                                                                 *)

\* Row i has no Summary: the cell is absent, empty or whitespace-only
SummaryMissing(i) == Trim(rows[i].Summary) = << >>

\* main's loop has got past row i in the pass that takes it
Passed(i) ==
    \/ /\ InPass(1, rows[i])
       /\ pass = 2 \/ idx > i
    \/ /\ InPass(2, rows[i])
       /\ pass = 2
       /\ idx > i

\* Only the Summary of row i is populated
OnlySummary(i) == rows[i] = Row(<< >>, << >>, rows[i].Summary, << >>, << >>)

\* C12: a missing Summary, and nothing else, makes buildFields throw, and no
\* create request is sent for such a row
C12_SummaryRequired ==
    /\ \A k \in DOMAIN posted : ~SummaryMissing(posted[k])
    /\ \A i \in DOMAIN rows : SummaryMissing(i) => ~Passed(i)
    /\ PayloadBuilt => ~SummaryMissing(idx)
    /\ err.type = "validation" =>
         /\ SummaryMissing(idx)
         /\ pc \in {"catch", "exited"}
         /\ \A k \in DOMAIN posted : posted[k] # idx

\* A row with only its Summary populated is created, and the row after it
\* makes buildFields throw
C12_Witness ==
    /\ err.type = "validation"
    /\ \E i \in CreatedRows : OnlySummary(i) /\ ~SummaryMissing(i) /\ i < idx

------------------------------------------------------------------------------
(* C13: the payload holds the story-points field if and only if the row has *)
(* a non-empty Story Points value, the schema has a resolved story-points   *)
(* identifier and the value parses as a number; a non-numeric value with a  *)
(* resolved identifier is left out, raises no error and the row is still    *)
(* submitted.                                                               *)

\* The text is a number: digits, with whitespace around them at most
IsNumberText(s) ==
    /\ Trim(s) # << >>
    /\ \A i \in DOMAIN Trim(s) : IsDigit(Trim(s)[i])

\* C13: the story-points field is in the payload exactly for a number and a
\* resolved identifier, and a row with a Summary is submitted whatever its
\* Story Points
C13_StoryPoints ==
    /\ PayloadBuilt =>
         /\ FieldStoryPoints.id \in DOMAIN fields
              <=> /\ rows[idx].StoryPoints # << >>
                  /\ schema.storyPointsId # null
                  /\ IsNumberText(rows[idx].StoryPoints)
         /\ FieldStoryPoints.id \in DOMAIN fields
              => fields[FieldStoryPoints.id]
                   = DecimalValue(Trim(rows[idx].StoryPoints))
    /\ err.type = "validation" => Trim(rows[idx].Summary) = << >>

------------------------------------------------------------------------------
(* C14: for every row whose Issue Type case-insensitively equals "sub-task" *)
(* and whose non-empty Parent Id is in the Map, in both modes and whatever  *)
(* its Epic Link, the payload holds a parent reference whose id is the      *)
(* destination id of the entry under Parent Id.                             *)

\* C14: a sub-task's parent reference is the entry under its Parent Id
C14_SubTaskParent ==
    (PayloadBuilt /\ ParentFound) =>
        /\ "parent" \in DOMAIN fields
        /\ fields["parent"] =
             [id |-> MapGet(epicMap, Trim(rows[idx].ParentId)).id]

------------------------------------------------------------------------------
(* C15, as claimed: whenever a payload holds a parent reference or the      *)
(* epic-link custom field, the id or key it holds belongs to a record       *)
(* created from an epic row in pass 1, never from a non-epic row.           *)

\* The records created from epic rows
EpicRecords == { k \in DOMAIN remote : IsEpicRow(rows[remote[k].row]) }

\* C15, as claimed: every reference is to the record of an epic row
C15_Original ==
    PayloadBuilt =>
        /\ "parent" \in DOMAIN fields =>
             \E k \in EpicRecords : fields["parent"] = [id |-> remote[k].id]
        /\ FieldEpicLink.id \in DOMAIN fields =>
             \E k \in EpicRecords : fields[FieldEpicLink.id] = remote[k].key

(* C15, amended: whenever a payload holds a parent reference or the         *)
(* epic-link custom field, the id or key it holds belongs to a record       *)
(* created earlier in the same run, the latest one created from a row with  *)
(* the referenced local id: an epic row of pass 1 or a non-epic row created *)
(* earlier in pass 2.                                                       *)

\* The records created before rows[idx] from rows with local id L
RecordsBefore(L) ==
    { k \in DOMAIN remote : remote[k].row # idx /\ LocalId(rows[remote[k].row]) = L }

\* The latest of them
LatestRecord(L) ==
    remote[CHOOSE k \in RecordsBefore(L) : \A j \in RecordsBefore(L) : j <= k]

\* C15, amended: every reference is to the latest record created for the
\* referenced local id
C15_ReferencesCreated ==
    PayloadBuilt =>
        /\ "parent" \in DOMAIN fields =>
             \E L \in {Trim(rows[idx].ParentId), Trim(rows[idx].EpicLink)} :
                 /\ L # << >>
                 /\ RecordsBefore(L) # {}
                 /\ fields["parent"] = [id |-> LatestRecord(L).id]
        /\ FieldEpicLink.id \in DOMAIN fields =>
             /\ RecordsBefore(Trim(rows[idx].EpicLink)) # {}
             /\ fields[FieldEpicLink.id] = LatestRecord(Trim(rows[idx].EpicLink)).key

\* A sub-task whose parent reference is to the record of a non-epic row, and
\* a row whose epic-link field holds the key of a record of a non-epic row
C15_Witness ==
    /\ PayloadBuilt
    /\ "parent" \in DOMAIN fields
    /\ ParentFound
    /\ ~IsEpicRow(rows[LatestRecord(Trim(rows[idx].ParentId)).row])
    /\ fields["parent"] = [id |-> LatestRecord(Trim(rows[idx].ParentId)).id]
    /\ FieldEpicLink.id \in DOMAIN fields
    /\ ~IsEpicRow(rows[LatestRecord(Trim(rows[idx].EpicLink)).row])

------------------------------------------------------------------------------
(* C16: the Map is written only on success: an entry is set only after the  *)
(* row's create request has returned a response with status < 400, the pair *)
(* set is the one that response carries, each row causes at most one write, *)
(* and the Map stays as it is through failed attempts, backoff sleeps and   *)
(* a request that fails for good.                                           *)

\* The step sets the pair of the successful response to the create request of
\* rows[idx] under the row's local id, leaves the other entries alone and
\* moves on to the next row
WritesCreatedRow ==
    LET L == LocalId(rows[idx]) IN
    /\ pc = "create"
    /\ xpc = "returned"
    /\ res.status < 400
    /\ remote # << >>
    /\ remote[Len(remote)].row = idx
    /\ MapKeys(epicMap') = MapKeys(epicMap) \cup {L}
    /\ MapGet(epicMap', L) = [id |-> res.data.id, key |-> res.data.key]
    /\ MapGet(epicMap', L) = PairOf(idx)
    /\ \A K \in MapKeys(epicMap) \ {L} : MapGet(epicMap', K) = MapGet(epicMap, K)
    /\ InPass(pass, rows[idx])
    /\ pass' = pass
    /\ idx' = idx + 1

\* main never comes back to a row: each pass takes a row once, and no row is
\* in both passes
MovesForward ==
    /\ pass' >= pass
    /\ pass' = pass => idx' >= idx
    /\ \A i \in DOMAIN rows : ~(InPass(1, rows[i]) /\ InPass(2, rows[i]))

C16_Step ==
    /\ epicMap' # epicMap => WritesCreatedRow
    /\ MovesForward
    /\ (xpc \in {"call", "sleep", "thrown"} \/ pc \in {"catch", "exited"})
         => epicMap' = epicMap
    /\ (Responded /\ res.status >= 400) => epicMap' = epicMap

\* C16: every step that changes the Map is the one write of a created row
C16_WrittenOnSuccess == [][C16_Step]_vars

\* After one write, the next create request is retried and fails for good
C16_Witness ==
    /\ pc = "exited"
    /\ err.type = "request"
    /\ err.status = 503
    /\ attempt = max
    /\ Len(remote) = 1
    /\ epicMap = <<[k |-> LocalId(rows[remote[1].row]), v |-> PairOf(remote[1].row)]>>

------------------------------------------------------------------------------
(* C17: when a sub-task's Parent Id or a row's Epic Link is non-empty but   *)
(* not in the Map when the payload is built, buildFields does not fail: it  *)
(* leaves the reference out, the row is submitted without the link and the  *)
(* run goes on.                                                             *)

\* The payload of rows[idx] is built and its Epic Link is not in the Map
EpicLinkMissing ==
    /\ PayloadBuilt
    /\ Trim(rows[idx].EpicLink) # << >>
    /\ ~MapHas(epicMap, Trim(rows[idx].EpicLink))

\* The payload of the sub-task rows[idx] is built and its Parent Id is not in the Map
ParentMissing ==
    /\ PayloadBuilt
    /\ ToLowerCase(rows[idx].IssueType) = sSubTaskLower
    /\ Trim(rows[idx].ParentId) # << >>
    /\ ~MapHas(epicMap, Trim(rows[idx].ParentId))

\* C17: a reference that is not in the Map is left out of the payload, raises
\* no error, and the row is created like any other
C17_UnresolvedOmitted ==
    /\ EpicLinkMissing =>
         /\ FieldEpicLink.id \notin DOMAIN fields
         /\ "parent" \in DOMAIN fields =>
              /\ ParentFound
              /\ fields["parent"] =
                   [id |-> MapGet(epicMap, Trim(rows[idx].ParentId)).id]
    /\ (ParentMissing /\ "parent" \in DOMAIN fields) =>
              /\ isTeamManaged
              /\ MapHas(epicMap, Trim(rows[idx].EpicLink))
              /\ fields["parent"] =
                   [id |-> MapGet(epicMap, Trim(rows[idx].EpicLink)).id]
    /\ err.type = "validation" => SummaryMissing(idx)
    /\ \A i \in DOMAIN rows : Passed(i) => i \in CreatedRows

\* A sub-task whose Parent Id and Epic Link were both not in the Map has been
\* created with neither reference, and the row after it is submitted
C17_Witness ==
    /\ schema.epicLinkId # null
    /\ \E k \in DOMAIN remote :
           /\ ToLowerCase(rows[remote[k].row].IssueType) = sSubTaskLower
           /\ Trim(rows[remote[k].row].ParentId) # << >>
           /\ Trim(rows[remote[k].row].EpicLink) # << >>
           /\ "parent" \notin DOMAIN remote[k].fields
           /\ FieldEpicLink.id \notin DOMAIN remote[k].fields
           /\ \E j \in DOMAIN posted : posted[j] > remote[k].row

------------------------------------------------------------------------------
(* C18: the two passes partition the rows: in a successful run every row,   *)
(* a row without Issue Type included, receives exactly one successful       *)
(* create response, none is skipped and none is in both passes, so the      *)
(* number of successful create responses equals the number of rows.         *)

\* The successful create responses of row i
RecordsOf(i) == { k \in DOMAIN remote : remote[k].row = i }

\* C18: each row is in one pass and is created at most once, and once when
\* the run succeeds
C18_Partition ==
    /\ \A i \in DOMAIN rows :
         /\ InPass(1, rows[i]) # InPass(2, rows[i])
         /\ Cardinality(RecordsOf(i)) <= 1
    /\ report # << >> =>
         /\ \A i \in DOMAIN rows : Cardinality(RecordsOf(i)) = 1
         /\ Len(remote) = Len(rows)

\* A successful run over three rows: one without Issue Type, then an epic
C18_Witness ==
    /\ report # << >>
    /\ exitCode = 0
    /\ Len(rows) = MaxRows
    /\ \E i, j \in DOMAIN rows :
           /\ i < j
           /\ rows[i].IssueType = << >>
           /\ IsEpicRow(rows[j])

------------------------------------------------------------------------------
(* C19: the internal timer doubles on every retry, the retries whose sleep  *)
(* came from Retry-After included, so the sleep before the k-th retry       *)
(* (k = 1..4) after a response without a numeric Retry-After header is      *)
(* 1000 x 2^(k-1) ms whatever the earlier responses carried; with 5         *)
(* attempts such a sleep is never longer than 8000 ms and the cap of        *)
(* 15000 ms is never the value slept.                                       *)

\* C19: the sleep before the k-th retry is 1000 x 2^(k-1) ms unless the
\* response carries a numeric Retry-After
C19_Doubling ==
    xpc = "sleep" =>
        /\ attempt \in 1..(max - 1)
        /\ wait = InitialWait * 2^(attempt - 1)
        /\ ~HasNumericRetryAfter(res) =>
             /\ sleepMs = InitialWait * 2^(attempt - 1)
             /\ sleepMs <= 8000
             /\ sleepMs # WaitCap

------------------------------------------------------------------------------
(* C20: references among non-epic rows depend on file order: pass 2 sets    *)
(* every created non-epic row in the Map, so a sub-task whose Parent Id is  *)
(* the local id of a non-epic row placed earlier in the file is created     *)
(* with a parent reference to it, while the same sub-task placed before     *)
(* that row is created with no parent reference and no error.               *)

\* The payload of the sub-task rows[idx] is built, and its Parent Id is the
\* local id of the non-epic row t and of no other row
SubTaskOf(t) ==
    /\ PayloadBuilt
    /\ ToLowerCase(rows[idx].IssueType) = sSubTaskLower
    /\ Trim(rows[idx].ParentId) # << >>
    /\ RowsWithLocalId(Trim(rows[idx].ParentId)) = {t}
    /\ t # idx
    /\ ~IsEpicRow(rows[t])

\* C20: the sub-task references the non-epic row when it comes after it in
\* the file; when it comes before it, its Parent Id is not in the Map and
\* gives the payload no parent reference, and nothing is raised
C20_FileOrder ==
    \A t \in DOMAIN rows :
        SubTaskOf(t) =>
            /\ t < idx =>
                 /\ t \in CreatedRows
                 /\ "parent" \in DOMAIN fields
                 /\ fields["parent"] = [id |-> RecordOf(t).id]
            /\ t > idx =>
                 /\ ~MapHas(epicMap, Trim(rows[idx].ParentId))
                 /\ "parent" \in DOMAIN fields =>
                      /\ isTeamManaged
                      /\ MapHas(epicMap, Trim(rows[idx].EpicLink))
                      /\ fields["parent"] =
                           [id |-> MapGet(epicMap, Trim(rows[idx].EpicLink)).id]
            /\ err.type # "validation"

====
